---- MODULE Spec2Model ----
(***************************************************************************)
(* Model of src/Excel_naar_long_objectenkolom.py: a batch script that      *)
(* reads every Excel workbook of a directory, reshapes each worksheet to   *)
(* long format, concatenates the sheets, drops zero observations and       *)
(* splits the rest with an exclusion filter.                               *)
(*                                                                         *)
(* Text is a sequence of one-character strings, so that trimming, case     *)
(* folding and pattern search are computed and not assumed.  "NBSP" stands *)
(* for the non-breaking space U+00A0.                                      *)
(***************************************************************************)
EXTENDS Integers, Sequences, FiniteSets, TLC

\* ------------------------------------------------------------------ text

UpperCase == <<"A","B","C","D","E","F","G","H","I","J","K","L","M",
               "N","O","P","Q","R","S","T","U","V","W","X","Y","Z">>

LowerCase == <<"a","b","c","d","e","f","g","h","i","j","k","l","m",
               "n","o","p","q","r","s","t","u","v","w","x","y","z">>

\* The sequence f, held as a tuple: TLC evaluates the elements of a function
\* constructor once here and not at every use.
Tup(f) == f \o <<>>

\* str.lower() on one character.
LowerChar(c) ==
    IF \E i \in 1..26 : UpperCase[i] = c
    THEN LowerCase[CHOOSE i \in 1..26 : UpperCase[i] = c]
    ELSE c

\* str.lower()
Lower(s) == Tup([i \in 1..Len(s) |-> LowerChar(s[i])])

\* The characters str.strip() removes (the ones the model's texts can hold).
WhiteSpace == {" ", "NBSP", "\t", "\n"}

\* str.strip(): the text without its leading and trailing white space.
Strip(s) ==
    LET keep == {i \in 1..Len(s) : s[i] \notin WhiteSpace}
    IN IF keep = {} THEN <<>>
       ELSE LET lo == CHOOSE i \in keep : \A j \in keep : i <= j
                hi == CHOOSE i \in keep : \A j \in keep : j <= i
            IN SubSeq(s, lo, hi)

\* x.replace('\xa0', ' ')
ReplaceNbsp(s) == Tup([i \in 1..Len(s) |-> IF s[i] = "NBSP" THEN " " ELSE s[i]])

\* str.endswith(suffix)
EndsWith(s, suffix) ==
    /\ Len(suffix) <= Len(s)
    /\ SubSeq(s, Len(s) - Len(suffix) + 1, Len(s)) = suffix

\* One pattern character against one text character under re's rules: "." is
\* the wildcard (any character but a line break), every other character of
\* the patterns in this program stands for itself; case=False compares the
\* case-folded characters.
RegexCharMatch(p, c, ignorecase) ==
    IF p = "." THEN c # "\n"
    ELSE IF ignorecase THEN LowerChar(p) = LowerChar(c) ELSE p = c

\* The pattern (no alternation) matches the text at position i.
RegexMatchAt(pat, s, i, ignorecase) ==
    /\ i + Len(pat) - 1 <= Len(s)
    /\ \A k \in 1..Len(pat) : RegexCharMatch(pat[k], s[i + k - 1], ignorecase)

\* re.search of the alternation alts[1]|alts[2]|... anywhere in the text.
RegexSearch(alts, s, ignorecase) ==
    \E a \in 1..Len(alts) : \E i \in 1..Len(s) :
        RegexMatchAt(alts[a], s, i, ignorecase)

\* ----------------------------------------------------------------- cells

\* A cell of a DataFrame: missing (NaN), text or a number.
NaN == [t |-> "nan", s |-> <<>>, n |-> 0]

Str(s) == [t |-> "str", s |-> s, n |-> 0]

Num(n) == [t |-> "num", s |-> <<>>, n |-> n]

\* pd.isna on a cell
IsNa(c) == c.t = "nan"

Digits == <<"0","1","2","3","4","5","6","7","8","9">>

RECURSIVE NatToStr(_)
NatToStr(n) ==
    IF n < 10 THEN <<Digits[n + 1]>>
    ELSE NatToStr(n \div 10) \o <<Digits[(n % 10) + 1]>>

\* str(x) of one cell of a column of the given dtype, as Series.astype(str)
\* renders it: a missing value becomes the text nan, and a whole number of
\* a float64 column is written with its decimal.
AsTypeStr(c, dtype) ==
    CASE c.t = "nan" -> <<"n","a","n">>
      [] c.t = "str" -> c.s
      [] c.t = "num" ->
            (IF c.n < 0 THEN <<"-">> \o NatToStr(-c.n) ELSE NatToStr(c.n))
            \o (IF dtype = "float64" THEN <<".","0">> ELSE <<>>)

\* Series.str.contains(pat, case=..., na=False) on one cell.
StrContains(c, alts, ignorecase) ==
    IF IsNa(c) THEN FALSE ELSE RegexSearch(alts, c.s, ignorecase)

\* ---------------------------------------------------------------- errors

\* An exception: the raise statement it comes from (kind), the workbook and
\* worksheet its message names, and the exception it wraps (cause).
NoErr == [kind |-> "none", bestand |-> <<>>, sheet |-> <<>>, cause |-> "none"]

Err(kind, bestand, sheet, cause) ==
    [kind |-> kind, bestand |-> bestand, sheet |-> sheet, cause |-> cause]

\* ------------------------------------------------ lees_datum_uit_cel

\* What cell C2 of a worksheet can hold when read with header=None, nrows=2,
\* usecols="C": no such cell (the sheet has fewer than two rows), a blank
\* cell, a text, or a date-typed Excel cell.
GeenCel == [t |-> "geen_cel", s |-> <<>>, ymd |-> <<>>]

LegeCel == [t |-> "nan", s |-> <<>>, ymd |-> <<>>]

TekstCel(s) == [t |-> "str", s |-> s, ymd |-> <<>>]

DatumCel(y, m, d) == [t |-> "datetime", s |-> <<>>, ymd |-> <<y, m, d>>]

IsDigit(c) == \E i \in 1..10 : Digits[i] = c

DigitVal(c) == (CHOOSE i \in 1..10 : Digits[i] = c) - 1

RECURSIVE StrToNat(_)
StrToNat(s) ==
    IF s = <<>> THEN 0
    ELSE 10 * StrToNat(SubSeq(s, 1, Len(s) - 1)) + DigitVal(s[Len(s)])

AllDigits(s) == \A i \in 1..Len(s) : IsDigit(s[i])

IsLeap(y) == (y % 4 = 0 /\ y % 100 # 0) \/ y % 400 = 0

DaysInMonth(y, m) ==
    CASE m \in {1, 3, 5, 7, 8, 10, 12} -> 31
      [] m \in {4, 6, 9, 11} -> 30
      [] m = 2 -> IF IsLeap(y) THEN 29 ELSE 28

\* The directive %d: one or two digits (or a blank and a digit) giving 1..31.
DayField(f) ==
    \/ /\ Len(f) \in {1, 2} /\ AllDigits(f) /\ StrToNat(f) \in 1..31
    \/ /\ Len(f) = 2 /\ f[1] = " " /\ IsDigit(f[2]) /\ DigitVal(f[2]) \in 1..9

DayValue(f) == IF f[1] = " " THEN DigitVal(f[2]) ELSE StrToNat(f)

\* The directive %m: one or two digits giving 1..12.
MonthField(f) == Len(f) \in {1, 2} /\ AllDigits(f) /\ StrToNat(f) \in 1..12

\* The directive %Y: exactly four digits.
YearField(f) == Len(f) = 4 /\ AllDigits(f)

\* pd.to_datetime(text, format='%d-%m-%Y'): the whole text must be
\* day-month-year with "-" between the fields and name a calendar day.
\* [ok, y, m]; ok = FALSE stands for the ValueError of a failed parse.
ParseDmy(s) ==
    LET dashes == {i \in 1..Len(s) : s[i] = "-"}
        bad == [ok |-> FALSE, y |-> 0, m |-> 0]
    IN IF Cardinality(dashes) # 2 THEN bad
       ELSE LET p1 == CHOOSE i \in dashes : \A j \in dashes : i <= j
                p2 == CHOOSE i \in dashes : \A j \in dashes : j <= i
                fd == SubSeq(s, 1, p1 - 1)
                fm == SubSeq(s, p1 + 1, p2 - 1)
                fy == SubSeq(s, p2 + 1, Len(s))
            IN IF DayField(fd) /\ MonthField(fm) /\ YearField(fy)
                  /\ DayValue(fd) <= DaysInMonth(StrToNat(fy), StrToNat(fm))
               THEN [ok |-> TRUE, y |-> StrToNat(fy), m |-> StrToNat(fm)]
               ELSE bad

\* The body of the try block: read C2, raise when it is blank, parse it.
\* [err, jaar, maand], err the exception the body raises (NoErr: none).
DatumTry(c2, bestand, sheet) ==
    LET fail(k) == [err |-> Err(k, bestand, sheet, "none"), jaar |-> 0, maand |-> 0]
    IN CASE c2.t = "geen_cel" -> fail("IndexError")
         [] c2.t = "nan" -> fail("MissingDateError")
         [] c2.t = "datetime" ->
                [err |-> NoErr, jaar |-> c2.ymd[1], maand |-> c2.ymd[2]]
         [] c2.t = "str" ->
                LET d == ParseDmy(c2.s)
                IN IF d.ok THEN [err |-> NoErr, jaar |-> d.y, maand |-> d.m]
                   ELSE fail("ValueError")

\* lees_datum_uit_cel: the except clause catches every exception of the try
\* block, the one raised for a blank cell included, and raises the
\* "Fout bij het lezen van datum" exception around it.
LeesDatumUitCel(c2, bestand, sheet) ==
    LET r == DatumTry(c2, bestand, sheet)
    IN IF r.err.kind = "none" THEN r
       ELSE [err |-> Err("InvalidDateError", bestand, sheet, r.err.kind),
             jaar |-> 0, maand |-> 0]

\* ------------------------------------------------------- verwerk_sheet

\* A DataFrame in wide form: its column labels and its rows of cells.
Frame(columns, rows) == [columns |-> columns, rows |-> rows]

NCols(df) == Len(df.columns)

NRows(df) == Len(df.rows)

\* The subsequence of s at the positions of the set idx, in order.
RECURSIVE Pick(_, _, _)
Pick(s, idx, from) ==
    IF from > Len(s) THEN <<>>
    ELSE (IF from \in idx THEN <<s[from]>> ELSE <<>>) \o Pick(s, idx, from + 1)

\* df.dropna(how='all'): the rows with at least one present cell.
DropNaRows(df) ==
    LET keep == {i \in 1..NRows(df) : \E j \in 1..NCols(df) : ~IsNa(df.rows[i][j])}
    IN Frame(df.columns, Pick(df.rows, keep, 1))

\* df.dropna(axis=1, how='all'): the columns with at least one present cell
\* (none of them when no row is left).
DropNaCols(df) ==
    LET keep == {j \in 1..NCols(df) : \E i \in 1..NRows(df) : ~IsNa(df.rows[i][j])}
    IN Frame(Pick(df.columns, keep, 1),
             Tup([i \in 1..NRows(df) |-> Pick(df.rows[i], keep, 1)]))

\* df.columns = df.columns.str.strip()
StripColumns(df) ==
    Frame(Tup([j \in 1..NCols(df) |-> Strip(df.columns[j])]), df.rows)

\* df.map(lambda x: x.replace('\xa0', ' ') if isinstance(x, str) else x)
MapNbsp(df) ==
    Frame(df.columns,
          Tup([i \in 1..NRows(df) |->
              Tup([j \in 1..NCols(df) |->
                  IF df.rows[i][j].t = "str"
                  THEN Str(ReplaceNbsp(df.rows[i][j].s))
                  ELSE df.rows[i][j]])]))

\* df.iloc[:, j - 1]: the cells of the j-th column.
ILoc(df, j) == Tup([i \in 1..NRows(df) |-> df.rows[i][j]])

\* The dtype pd.read_excel gives a column: object when it holds a text,
\* float64 when it holds numbers and a missing value (padded: the sheet had
\* an empty row, which leaves a missing value in every column), else int64.
ReadDtype(vals, padded) ==
    IF \E i \in 1..Len(vals) : vals[i].t = "str" THEN "object"
    ELSE IF padded \/ \E i \in 1..Len(vals) : IsNa(vals[i]) THEN "float64"
    ELSE "int64"

\* .astype(str).replace('nan', '').str.strip().replace('', np.nan) on one
\* cell: the trimmed text, or NaN when nothing is left of it.
TextCell(c, dtype) ==
    LET a == AsTypeStr(c, dtype)
        b == IF a = <<"n","a","n">> THEN <<>> ELSE a
        t == Strip(b)
    IN IF t = <<>> THEN NaN ELSE Str(t)

TextColumn(vals, padded) ==
    Tup([i \in 1..Len(vals) |-> TextCell(vals[i], ReadDtype(vals, padded))])

Organisme == <<"O","r","g","a","n","i","s","m","e">>

Resistentie == <<"R","e","s","i","s","t","e","n","t","i","e">>

\* df[name] = vals: every column already labelled name takes the values, and
\* a new last column is added when there is none.
SetItem(df, name, vals) ==
    IF \E j \in 1..NCols(df) : df.columns[j] = name
    THEN Frame(df.columns,
               Tup([i \in 1..NRows(df) |->
                   Tup([j \in 1..NCols(df) |->
                       IF df.columns[j] = name THEN vals[i] ELSE df.rows[i][j]])]))
    ELSE Frame(Append(df.columns, name),
               Tup([i \in 1..NRows(df) |-> Append(df.rows[i], vals[i])]))

\* df.columns[2:-1] if df.columns[-1] == 'Organisme' else df.columns[2:]
Afdelingskolommen(columns) ==
    IF columns[Len(columns)] = Organisme
    THEN SubSeq(columns, 3, Len(columns) - 1)
    ELSE SubSeq(columns, 3, Len(columns))

\* The positions of the columns of df labelled name, in order.
Positions(df, name) ==
    Pick([j \in 1..NCols(df) |-> j], {j \in 1..NCols(df) : df.columns[j] = name}, 1)

RECURSIVE SelectPositions(_, _)
SelectPositions(df, labels) ==
    IF labels = <<>> THEN <<>>
    ELSE Positions(df, Head(labels)) \o SelectPositions(df, Tail(labels))

\* df[labels]: for each label in turn, every column of df that carries it.
SelectColumns(df, labels) ==
    LET pos == SelectPositions(df, labels)
    IN Frame(Tup([k \in 1..Len(pos) |-> df.columns[pos[k]]]),
             Tup([i \in 1..NRows(df) |->
                     Tup([k \in 1..Len(pos) |-> df.rows[i][pos[k]]])]))

\* df.loc[:, ~df.columns.duplicated()]: the first column of each label.
DropDuplicatedColumns(df) ==
    LET keep == {j \in 1..NCols(df) : \A k \in 1..(j - 1) : df.columns[k] # df.columns[j]}
    IN Frame(Pick(df.columns, keep, 1),
             Tup([i \in 1..NRows(df) |-> Pick(df.rows[i], keep, 1)]))

\* df.melt(id_vars=['Organisme', 'Resistentie'], var_name='Afdeling',
\* value_name='Waarde'): one record per value column and row, the columns
\* in order and the rows in order within each column.
Melt(df) ==
    LET ids == {Organisme, Resistentie}
        vpos == Pick([j \in 1..NCols(df) |-> j],
                     {j \in 1..NCols(df) : df.columns[j] \notin ids}, 1)
        o == CHOOSE j \in 1..NCols(df) : df.columns[j] = Organisme
        r == CHOOSE j \in 1..NCols(df) : df.columns[j] = Resistentie
        R == NRows(df)
    IN Tup([k \in 1..(Len(vpos) * R) |->
               LET c == vpos[((k - 1) \div R) + 1]
                   i == ((k - 1) % R) + 1
               IN [Organisme |-> df.rows[i][o],
                   Resistentie |-> df.rows[i][r],
                   Afdeling |-> df.columns[c],
                   Waarde |-> df.rows[i][c]]])

t_BRMO == <<"B","R","M","O">>

t_ESBL == <<"E","S","B","L">>

t_VRE == <<"V","R","E">>

t_MRSA == <<"M","R","S","A">>

t_CARBA == <<"C","A","R","B","A">>

\* .astype(int) of a Boolean
AsInt(b) == IF b THEN 1 ELSE 0

\* Binary columns gone wrong: the terms are looked for with case=True.
BinaireKolommen_Hoofdletters(res) ==
    [BRMO |-> AsInt(StrContains(res, <<t_BRMO, t_ESBL, t_VRE, t_MRSA, t_CARBA>>, FALSE)),
     ESBL |-> AsInt(StrContains(res, <<t_ESBL>>, FALSE)),
     VRE |-> AsInt(StrContains(res, <<t_VRE>>, FALSE)),
     MRSA |-> AsInt(StrContains(res, <<t_MRSA>>, FALSE)),
     CARBA |-> AsInt(StrContains(res, <<t_CARBA>>, FALSE))]

\* The five binary columns of one record, from its Resistentie.
BinaireKolommen(res) ==
    [BRMO |-> AsInt(StrContains(res, <<t_BRMO, t_ESBL, t_VRE, t_MRSA, t_CARBA>>, TRUE)),
     ESBL |-> AsInt(StrContains(res, <<t_ESBL>>, TRUE)),
     VRE |-> AsInt(StrContains(res, <<t_VRE>>, TRUE)),
     MRSA |-> AsInt(StrContains(res, <<t_MRSA>>, TRUE)),
     CARBA |-> AsInt(StrContains(res, <<t_CARBA>>, TRUE))]

\* One record of the long table with its binary columns and its period.
LongRecord(m, jaar, maand) ==
    LET b == BinaireKolommen(m.Resistentie)
    IN [Organisme |-> m.Organisme, Resistentie |-> m.Resistentie,
        Afdeling |-> m.Afdeling, Waarde |-> m.Waarde,
        BRMO |-> b.BRMO, ESBL |-> b.ESBL, VRE |-> b.VRE, MRSA |-> b.MRSA,
        CARBA |-> b.CARBA, Jaar |-> jaar, Maand |-> maand]

\* The dtype of a column made by .replace('', np.nan): object, unless every
\* value became NaN and this pandas downcasts the result of replace (pandas
\* before 3.0 without future.no_silent_downcasting), which gives float64.
ReplaceDtype(vals, downcast) ==
    IF downcast /\ vals # <<>> /\ \A i \in 1..Len(vals) : IsNa(vals[i])
    THEN "float64" ELSE "object"

\* The body of the try block of verwerk_sheet on the table read from row 3,
\* column C on.  [err, long_df]: err is the exception the body raises.
SheetTry(raw, bestand, sheet, jaar, maand, downcast) ==
    LET fail(k) == [err |-> Err(k, bestand, sheet, "none"), long_df |-> <<>>]
        df1 == DropNaRows(raw)
        padded == NRows(df1) < NRows(raw)
        df3 == MapNbsp(StripColumns(DropNaCols(df1)))
    IN IF NCols(df3) < 1 THEN fail("IndexError")
       ELSE LET df4 == SetItem(df3, Organisme, TextColumn(ILoc(df3, 1), padded))
            IN IF NCols(df4) < 2 THEN fail("IndexError")
               ELSE LET res == TextColumn(ILoc(df4, 2), padded)
                        df5 == SetItem(df4, Resistentie, res)
                        df6 == SelectColumns(df5, <<Organisme, Resistentie>>
                                                  \o Afdelingskolommen(df5.columns))
                        df7 == DropDuplicatedColumns(df6)
                        long == Melt(df7)
                    IN IF long = <<>> THEN fail("EmptySheetError")
                       ELSE IF ReplaceDtype(res, downcast) = "float64"
                            THEN fail("AttributeError")
                            ELSE [err |-> NoErr,
                                  long_df |-> Tup([k \in 1..Len(long) |->
                                                  LongRecord(long[k], jaar, maand)])]

\* verwerk_sheet: every exception of the try block is raised again inside
\* the "Fout bij het inlezen van tabel" exception.
VerwerkSheet(raw, bestand, sheet, jaar, maand, downcast) ==
    LET r == SheetTry(raw, bestand, sheet, jaar, maand, downcast)
    IN IF r.err.kind = "none" THEN r
       ELSE [err |-> Err("SheetProcessingError", bestand, sheet, r.err.kind),
             long_df |-> <<>>]

\* ----------------------------------------------------- filter_exclusie

\* A long table: a sequence of rows, each an index label and a record.
Row(idx, rec) == [idx |-> idx, rec |-> rec]

verboden_woorden ==
    <<<<"c","o","c","c","e","n">>,
      <<"s","t","a","v","e","n">>,
      <<"C","o","a","g","u","l","a","s","e","-","n","e","g","a","t","i","e","v","e">>,
      <<"F","l","u","o","r","e","s","c","."," ","p","r","e","p","a","r","a","a","t">>,
      <<"v","e","r","g","r","o","e","n","e","n","d">>,
      <<"g","e","k","w","e","e","k","t">>,
      <<"B","R","M","O"," ","P","C","R">>,
      <<"E","S","B","L","/","C","P","E"," ","P","C","R">>,
      <<"I","g","G">>,
      <<"I","g","M">>>>

verboden_taxonomie ==
    <<<<"P","l","a","s","m","o","d","i","u","m">>,
      <<"C",".","p","s","i","t","t","a","c","i">>,
      <<"Q","-","k","o","o","r","t","s">>,
      <<"R","o","t","a","v","i","r","u","s"," ","a","n","t","i","g","e","e","n"," ","s","n","e","l","t","e","s","t">>,
      <<"A","d","e","n","o","v","i","r","u","s"," ","a","n","t","i","g","e","e","n"," ","s","n","e","l","t","e","s","t">>,
      <<"M","R","S","A"," ","P","C","R"," ","s","n","e","l","t","e","s","t">>,
      <<"M","R","S","A"," ","P","C","R">>,
      <<"M","R","S","A"," ","D","N","A">>,
      <<"V","R","E"," ","P","C","R"," ","s","n","e","l","t","e","s","t">>>>

\* The three masks of one row.  '|'.join(...) makes each list one regular
\* expression, searched with case=False; the comma is searched as it is.
mask_verboden_woorden(rec) == StrContains(rec.Organisme, verboden_woorden, TRUE)

mask_verboden_taxonomie(rec) == StrContains(rec.Organisme, verboden_taxonomie, TRUE)

mask_komma(rec) == StrContains(rec.Organisme, <<<<",">>>>, FALSE)

mask_exclusie(rec) ==
    mask_verboden_woorden(rec) \/ mask_verboden_taxonomie(rec) \/ mask_komma(rec)

\* A filter_exclusie gone wrong: the retained table is taken with the mask
\* of the forbidden words alone, so a row excluded for its taxon or its comma
\* is retained as well.
FilterExclusie_AlleenWoorden(df) ==
    [behouden |-> Pick(df, {i \in 1..Len(df) : ~mask_verboden_woorden(df[i].rec)}, 1),
     exclusie |-> Pick(df, {i \in 1..Len(df) : mask_exclusie(df[i].rec)}, 1)]

\* filter_exclusie: df[~mask_exclusie] and df[mask_exclusie], the rows of
\* each in the order of df and with their index labels.
FilterExclusie(df) ==
    [behouden |-> Pick(df, {i \in 1..Len(df) : ~mask_exclusie(df[i].rec)}, 1),
     exclusie |-> Pick(df, {i \in 1..Len(df) : mask_exclusie(df[i].rec)}, 1)]

\* ------------------------------------------------------------------ main

\* A selection gone wrong: the name is compared without lower().
IsExcelBestand_ZonderLower(bestand) ==
    \/ EndsWith(bestand, <<".","x","l","s","x">>)
    \/ EndsWith(bestand, <<".","x","l","s","m">>)

\* bestand.lower().endswith(('.xlsx', '.xlsm'))
IsExcelBestand(bestand) ==
    \/ EndsWith(Lower(bestand), <<".","x","l","s","x">>)
    \/ EndsWith(Lower(bestand), <<".","x","l","s","m">>)

RECURSIVE Flatten(_)
Flatten(dfs) == IF dfs = <<>> THEN <<>> ELSE Head(dfs) \o Flatten(Tail(dfs))

\* pd.concat(alle_data, ignore_index=True): the records of every table in
\* order, labelled 0, 1, 2, ...
Concat(dfs) ==
    LET recs == Flatten(dfs)
    IN Tup([k \in 1..Len(recs) |-> Row(k - 1, recs[k])])

\* The comparison Waarde != 0 on one cell: false for the number 0 only (NaN
\* and text differ from 0).
WaardeNotZero(c) == ~(c.t = "num" /\ c.n = 0)

\* A zero filter gone wrong: res_binair[res_binair['Waarde'] > 0], which
\* also drops the rows without a Waarde.
ZeroFilter_Positief(df) ==
    Pick(df, {i \in 1..Len(df) : df[i].rec.Waarde.t = "num" /\ df[i].rec.Waarde.n > 0}, 1)

\* res_binair[res_binair['Waarde'] != 0]
ZeroFilter(df) ==
    Pick(df, {i \in 1..Len(df) : WaardeNotZero(df[i].rec.Waarde)}, 1)

\* The name of the i-th worksheet of a workbook.
SheetName(i) == <<"B","l","a","d">> \o NatToStr(i)

\* A table that no statement has assigned yet.
Unset == [set |-> FALSE, df |-> <<>>]

Assigned(df) == [set |-> TRUE, df |-> df]

\* ------------------------------------------------------------ the inputs

\* Bounds of the model.
MaxFiles == 2

MaxSheets == 2

MaxRijen == 2

MaxLabelLen == 3

MaxFilterRijen == 2

\* Directory entries: two names main selects (B.XLSX, c.Xlsm), two it does
\* not (d.xls, exlsx).
Bestandsnamen ==
    {<<"B",".","X","L","S","X">>, <<"c",".","X","l","s","m">>,
     <<"d",".","x","l","s">>, <<"e","x","l","s","x">>}

\* os.listdir: the entries of the directory, each once, in any order.
Listings ==
    UNION {{l \in [1..n -> Bestandsnamen] : \A i, j \in 1..n : i # j => l[i] # l[j]}
           : n \in 0..MaxFiles}

\* The contents of cell C2 the model reads.
C2Cells ==
    {GeenCel, LegeCel, DatumCel(2024, 3, 15),
     TekstCel(<<"1","5","-","0","3","-","2","0","2","4">>),
     TekstCel(<<"2","0","2","4","-","0","3","-","1","5">>),
     TekstCel(<<"3","1","-","0","2","-","2","0","2","4">>)}

AfdA == <<"A","f","d"," ","A">>

AfdB == <<"A","f","d"," ","B">>

\* The worksheet of the end-to-end example: one organism, two departments.
VoorbeeldBlad ==
    Frame(<<Organisme, Resistentie, AfdA, AfdB>>,
          << <<Str(<<"E","."," ","c","o","l","i">>), Str(<<"E","S","B","L"," ","p","o","s","i","t","i","e","f">>), Num(3), Num(0)>> >>)

\* Rows that the exclusion filter and the zero drop tell apart.
GemengdBlad ==
    Frame(<<Organisme, Resistentie, AfdA, AfdB>>,
          << <<Str(<<"E","."," ","c","o","l","i",","," ","M","R","S","A">>), Str(t_MRSA), Num(2), Num(0)>>,
             <<Str(<<"G","r","a","m","-","p","o","s","i","t","i","e","v","e"," ","c","o","c","c","e","n">>), NaN, Num(0), Num(5)>>,
             <<Str(<<"S","."," ","a","u","r","e","u","s">>), NaN, NaN, Num(1)>> >>)

\* Headers and no data row.
LeegBlad == Frame(<<Organisme, Resistentie, AfdA>>, <<>>)

\* Data rows and no department column.
ZonderAfdelingen ==
    Frame(<<Organisme, Resistentie>>, << <<Str(<<"E","."," ","c","o","l","i">>), Str(t_ESBL)>> >>)

\* The only resistance label is a blank.
SpatieBlad ==
    Frame(<<Organisme, Resistentie, AfdA>>,
          << <<Str(<<"E","."," ","c","o","l","i">>), Str(<<" ">>), Num(1)>> >>)

\* The worksheets a run of main reads.
Bladen == {GemengdBlad, LeegBlad, ZonderAfdelingen, SpatieBlad}

\* ----------------------------------------------------------- the state

VARIABLES
    pandas_downcast,        \* this pandas downcasts the result of replace
    listing,                \* os.listdir(pad_naar_excelmap)
    pc,                     \* the statement main is at
    fi,                     \* the position of bestand in listing
    opened,                 \* the names given to pd.ExcelFile, in order
    sheet_names,            \* xls.sheet_names of the workbook that is open
    si,                     \* the position of sheet in sheet_names
    processed,              \* the (bestand, sheet) pairs whose date was read
    datum,                  \* jaar, maand of the sheet at hand
    resultaat_per_bestand,  \* the tables of the workbook that is open
    alle_data,              \* the tables of the workbooks done
    res_binair,             \* the concatenation
    res_binair_no_0,        \* the concatenation without the zero values
    resultaat,              \* the retained table
    exclusie,               \* the excluded table
    err,                    \* the exception that ended the run
    invoer,                 \* the last value read from a workbook, or the argument of a call
    uitvoer                 \* the value a direct call returned

vars ==
    <<pandas_downcast, listing, pc, fi, opened, sheet_names, si, processed, datum,
      resultaat_per_bestand, alle_data, res_binair, res_binair_no_0, resultaat,
      exclusie, err, invoer, uitvoer>>

Invoer(soort, w) == [soort |-> soort, w |-> w]

GeenDatum == [jaar |-> 0, maand |-> 0]

\* The state main starts from, before the first statement.
Begin(pc0) ==
    /\ pc = pc0
    /\ fi = 1
    /\ opened = <<>>
    /\ sheet_names = <<>>
    /\ si = 1
    /\ processed = <<>>
    /\ datum = GeenDatum
    /\ resultaat_per_bestand = <<>>
    /\ alle_data = <<>>
    /\ res_binair = Unset
    /\ res_binair_no_0 = Unset
    /\ resultaat = Unset
    /\ exclusie = Unset
    /\ err = NoErr
    /\ uitvoer = <<>>

Init ==
    /\ pandas_downcast \in BOOLEAN
    /\ listing \in Listings
    /\ invoer = Invoer("geen", <<>>)
    /\ Begin("lus")

\* An exception leaves main: nothing is assigned any more.
Raise(e) ==
    /\ err' = e
    /\ pc' = "failed"

\* for bestand in os.listdir(...): an entry that is no .xlsx/.xlsm is passed over.
SlaOver ==
    /\ pc = "lus"
    /\ fi <= Len(listing)
    /\ ~IsExcelBestand(listing[fi])
    /\ fi' = fi + 1
    /\ UNCHANGED <<pandas_downcast, listing, pc, opened, sheet_names, si, processed,
                   datum, resultaat_per_bestand, alle_data, res_binair,
                   res_binair_no_0, resultaat, exclusie, err, invoer, uitvoer>>

\* verwerk_excelbestand: pd.ExcelFile opens the workbook, which has one
\* worksheet or more.
OpenBestand ==
    /\ pc = "lus"
    /\ fi <= Len(listing)
    /\ IsExcelBestand(listing[fi])
    /\ opened' = Append(opened, listing[fi])
    /\ \E n \in 1..MaxSheets : sheet_names' = Tup([i \in 1..n |-> SheetName(i)])
    /\ si' = 1
    /\ resultaat_per_bestand' = <<>>
    /\ pc' = "datum"
    /\ UNCHANGED <<pandas_downcast, listing, fi, processed, datum, alle_data,
                   res_binair, res_binair_no_0, resultaat, exclusie, err, invoer,
                   uitvoer>>

\* verwerk_excelbestand: pd.ExcelFile raises.
OpenBestandFout ==
    /\ pc = "lus"
    /\ fi <= Len(listing)
    /\ IsExcelBestand(listing[fi])
    /\ opened' = Append(opened, listing[fi])
    /\ Raise(Err("WorkbookOpenError", listing[fi], <<>>, "OSError"))
    /\ UNCHANGED <<pandas_downcast, listing, fi, sheet_names, si, processed, datum,
                   resultaat_per_bestand, alle_data, res_binair, res_binair_no_0,
                   resultaat, exclusie, invoer, uitvoer>>

\* A date step gone wrong: the exception of lees_datum_uit_cel is kept but
\* not raised, and the loop goes on to the reshape of the sheet without a
\* date.
LeesDatum_GaatDoor ==
    /\ pc = "datum"
    /\ \E c2 \in C2Cells :
          LET r == LeesDatumUitCel(c2, listing[fi], sheet_names[si])
          IN /\ invoer' = Invoer("c2", c2)
             /\ pc' = "sheet"
             /\ IF r.err.kind # "none"
                THEN err' = r.err /\ datum' = GeenDatum
                ELSE err' = err /\ datum' = [jaar |-> r.jaar, maand |-> r.maand]
    /\ processed' = Append(processed, <<listing[fi], sheet_names[si]>>)
    /\ UNCHANGED <<pandas_downcast, listing, fi, opened, sheet_names, si,
                   resultaat_per_bestand, alle_data, res_binair, res_binair_no_0,
                   resultaat, exclusie, uitvoer>>

\* jaar, maand = lees_datum_uit_cel(xls, sheet, bestand)
LeesDatum ==
    /\ pc = "datum"
    /\ \E c2 \in C2Cells :
          LET r == LeesDatumUitCel(c2, listing[fi], sheet_names[si])
          IN /\ invoer' = Invoer("c2", c2)
             /\ IF r.err.kind # "none"
                THEN Raise(r.err) /\ datum' = datum
                ELSE /\ datum' = [jaar |-> r.jaar, maand |-> r.maand]
                     /\ pc' = "sheet"
                     /\ err' = err
    /\ processed' = Append(processed, <<listing[fi], sheet_names[si]>>)
    /\ UNCHANGED <<pandas_downcast, listing, fi, opened, sheet_names, si,
                   resultaat_per_bestand, alle_data, res_binair, res_binair_no_0,
                   resultaat, exclusie, uitvoer>>

\* long_df = verwerk_sheet(...); resultaat_per_bestand.append(long_df); after
\* the last sheet the workbook's tables are returned and main extends
\* alle_data with them.
VerwerkSheetStap ==
    /\ pc = "sheet"
    /\ \E raw \in Bladen :
          LET r == VerwerkSheet(raw, listing[fi], sheet_names[si],
                                datum.jaar, datum.maand, pandas_downcast)
          IN /\ invoer' = Invoer("blad", raw)
             /\ IF r.err.kind # "none"
                THEN /\ Raise(r.err)
                     /\ UNCHANGED <<resultaat_per_bestand, alle_data, fi, si>>
                ELSE /\ resultaat_per_bestand' = Append(resultaat_per_bestand, r.long_df)
                     /\ err' = err
                     /\ IF si < Len(sheet_names)
                        THEN /\ si' = si + 1
                             /\ pc' = "datum"
                             /\ UNCHANGED <<alle_data, fi>>
                        ELSE /\ alle_data' = alle_data \o resultaat_per_bestand'
                             /\ fi' = fi + 1
                             /\ pc' = "lus"
                             /\ si' = si
    /\ UNCHANGED <<pandas_downcast, listing, opened, sheet_names, processed, datum,
                   res_binair, res_binair_no_0, resultaat, exclusie, uitvoer>>

\* if not alle_data: raise Exception("Geen data gevonden in de opgegeven map.")
EindeLus ==
    /\ pc = "lus"
    /\ fi > Len(listing)
    /\ IF alle_data = <<>>
       THEN Raise(Err("NoDataFoundError", <<>>, <<>>, "none"))
       ELSE pc' = "combineer" /\ err' = err
    /\ UNCHANGED <<pandas_downcast, listing, fi, opened, sheet_names, si, processed,
                   datum, resultaat_per_bestand, alle_data, res_binair,
                   res_binair_no_0, resultaat, exclusie, invoer, uitvoer>>

\* res_binair = pd.concat(...); res_binair_no_0 = res_binair[... != 0]
Combineer ==
    /\ pc = "combineer"
    /\ res_binair' = Assigned(Concat(alle_data))
    /\ res_binair_no_0' = Assigned(ZeroFilter(Concat(alle_data)))
    /\ pc' = "filter"
    /\ UNCHANGED <<pandas_downcast, listing, fi, opened, sheet_names, si, processed,
                   datum, resultaat_per_bestand, alle_data, resultaat, exclusie,
                   err, invoer, uitvoer>>

\* The names main has bound when it reaches the call of filter_exclusie,
\* with their values (no module-level name is spelled res_binair_no_o).
LocalsMain ==
    [alle_data |-> alle_data,
     res_binair |-> res_binair,
     res_binair_no_0 |-> res_binair_no_0]

\* resultaat, exclusie = filter_exclusie(res_binair_no_o): the argument is
\* looked up by its name; an unbound name raises NameError, which the except
\* clause raises again as "Fout bij het combineren van dataframes".
Filter ==
    /\ pc = "filter"
    /\ IF "res_binair_no_o" \in DOMAIN LocalsMain
       THEN LET r == FilterExclusie(LocalsMain["res_binair_no_o"].df)
            IN /\ resultaat' = Assigned(r.behouden)
               /\ exclusie' = Assigned(r.exclusie)
               /\ pc' = "done"
               /\ err' = err
       ELSE /\ Raise(Err("CombineError", <<>>, <<>>, "NameError"))
            /\ UNCHANGED <<resultaat, exclusie>>
    /\ UNCHANGED <<pandas_downcast, listing, fi, opened, sheet_names, si, processed,
                   datum, resultaat_per_bestand, alle_data, res_binair,
                   res_binair_no_0, invoer, uitvoer>>

Next ==
    \/ SlaOver
    \/ OpenBestand
    \/ OpenBestandFout
    \/ LeesDatum
    \/ VerwerkSheetStap
    \/ EindeLus
    \/ Combineer
    \/ Filter

\* One run of the script.
Spec == Init /\ [][Next]_vars

\* ------------------------------------------- direct calls of the functions

MO == <<"M","O">>

Res == <<"R","e","s">>

AfdA_sp == <<"A","f","d"," ","A"," ">>

\* The header rows of the tables given to verwerk_sheet: pandas makes the
\* labels it reads distinct, so two raw labels differ, at least in their
\* white space.  Department columns are not labelled Organisme or Resistentie.
Koppen ==
    {<<MO>>, <<Organisme>>}
    \cup {id \o afd : id \in {<<Organisme, Resistentie>>, <<MO, Res>>},
                      afd \in {<<>>, <<AfdA>>, <<AfdA, AfdA_sp>>, <<AfdA_sp, AfdB>>}}

\* The cells a column of such a table can hold, by its position.
Cellen(j) ==
    CASE j = 1 -> {NaN, Str(<<"E","."," ","c","o","l","i">>)}
      [] j = 2 -> {NaN, Str(<<" ">>), Str(t_ESBL)}
      [] OTHER -> {NaN, Num(3)}

\* The rows of n cells.
RECURSIVE Rijen(_)
Rijen(n) ==
    IF n = 0 THEN {<<>>}
    ELSE {Append(r, c) : r \in Rijen(n - 1), c \in Cellen(n)}

LabelChars == {"V", "v", "R", "E", "e", "S", " "}

\* The texts of at most n characters of LabelChars.
RECURSIVE Teksten(_)
Teksten(n) ==
    IF n = 0 THEN {<<>>}
    ELSE Teksten(n - 1) \cup {Append(s, c) : s \in Teksten(n - 1), c \in LabelChars}

\* Resistance labels: every short text, and labels as the workbooks have
\* them.  pd.read_excel reads an empty text and the text nan as a missing
\* value, so no cell holds them.
Labels ==
    (Teksten(MaxLabelLen) \ {<<>>}) \cup
    {<<"E","S","B","L"," ","p","o","s","i","t","i","e","f">>,
     <<"e","s","b","l">>,
     <<"M","R","S","A">>,
     <<"m","r","s","a","/","v","r","e">>,
     <<"C","a","r","b","a","p","e","n","e","m","a","s","e">>,
     <<"C","A","R","B","A">>,
     <<"B","R","M","O">>,
     <<"b","r","m","o">>,
     <<"E","S","B"," ","L">>,
     <<"g","e","e","n">>,
     <<"NBSP","E","S","B","L","NBSP">>,
     <<"NBSP">>}

\* A table of two rows: the label, and a row whose label is present.
LabelTabel(label) ==
    Frame(<<Organisme, Resistentie, AfdA>>,
          << <<Str(<<"E","."," ","c","o","l","i">>), Str(label), Num(3)>>,
             <<Str(<<"S","."," ","a","u","r","e","u","s">>), Str(<<"g","e","e","n">>), Num(1)>> >>)

\* The tables of the catalogue and one table for each label.
KleineBladen == {VoorbeeldBlad} \cup Bladen \cup {LabelTabel(l) : l \in Labels}

\* The organism names the exclusion filter is called with.
Organismen ==
    {NaN,
     Str(<<"E","."," ","c","o","l","i">>),
     Str(<<"S","."," ","a","u","r","e","u","s">>),
     Str(<<"E","."," ","c","o","l","i",","," ","M","R","S","A">>),
     Str(<<"K","l","e","b","s","i","e","l","l","a",",">>),
     Str(<<"M","R","S","A">>),
     Str(<<"V","R","E"," ","P","C","R">>),
     Str(<<"C","p","s","i","t","t","a","c","i">>),
     Str(<<"k","o","k","k","e","n">>),
     Str(<<"G","r","a","m","-","p","o","s","i","t","i","e","v","e"," ","c","o","c","c","e","n">>),
     Str(<<"G","r","a","m","-","n","e","g","a","t","i","e","v","e"," ","S","T","A","V","E","N">>),
     Str(<<"c","o","a","g","u","l","a","s","e","-","n","e","g","a","t","i","e","v","e"," ","s","t","a","f","y","l","o","k","o","k","k","e","n">>),
     Str(<<"F","l","u","o","r","e","s","c","."," ","p","r","e","p","a","r","a","a","t">>),
     Str(<<"F","l","u","o","r","e","s","c"," "," ","p","r","e","p","a","r","a","a","t">>),
     Str(<<"v","e","r","g","r","o","e","n","e","n","d","e"," ","s","t","r","e","p","t","o","k","o","k","k","e","n">>),
     Str(<<"n","i","e","t"," ","g","e","k","w","e","e","k","t">>),
     Str(<<"B","R","M","O"," ","P","C","R">>),
     Str(<<"E","S","B","L","/","C","P","E"," ","P","C","R">>),
     Str(<<"I","g","G">>),
     Str(<<"i","g","m">>),
     Str(<<"P","l","a","s","m","o","d","i","u","m"," ","f","a","l","c","i","p","a","r","u","m">>),
     Str(<<"C",".","p","s","i","t","t","a","c","i">>),
     Str(<<"C"," ","p","s","i","t","t","a","c","i">>),
     Str(<<"Q","-","k","o","o","r","t","s">>),
     Str(<<"R","o","t","a","v","i","r","u","s"," ","a","n","t","i","g","e","e","n"," ","s","n","e","l","t","e","s","t">>),
     Str(<<"a","d","e","n","o","v","i","r","u","s"," ","a","n","t","i","g","e","e","n"," ","s","n","e","l","t","e","s","t">>),
     Str(<<"M","R","S","A"," ","P","C","R"," ","s","n","e","l","t","e","s","t">>),
     Str(<<"M","R","S","A"," ","P","C","R">>),
     Str(<<"M","R","S","A"," ","D","N","A">>),
     Str(<<"V","R","E"," ","P","C","R"," ","s","n","e","l","t","e","s","t">>)}

\* A record of the long table with this organism and resistance label.
Record(org, res) ==
    LongRecord([Organisme |-> org, Resistentie |-> res, Afdeling |-> AfdA,
                Waarde |-> Num(1)], 2024, 3)

FilterRecords ==
    {Record(o, NaN) : o \in Organismen} \cup
    {Record(o, Str(t_MRSA)) : o \in {Str(<<"E","."," ","c","o","l","i">>), Str(<<"E","."," ","c","o","l","i",","," ","M","R","S","A">>)}}

\* The records that fill the other rows of a table given to the filter.
VulRecords ==
    {Record(o, NaN) : o \in {NaN,
                             Str(<<"E","."," ","c","o","l","i">>),
                             Str(<<"M","R","S","A"," ","D","N","A">>),
                             Str(<<"K","l","e","b","s","i","e","l","l","a",",">>)}}

Bestand0 == <<"B",".","X","L","S","X">>

\* The tables verwerk_sheet is called with: every table with a header row of
\* Koppen and at most MaxRijen rows, and the tables of KleineBladen.
InitSheet ==
    /\ pandas_downcast \in BOOLEAN
    /\ listing = <<>>
    /\ \/ \E k \in Koppen : \E m \in 0..MaxRijen :
              \E rows \in [1..m -> Rijen(Len(k))] :
                  invoer = Invoer("blad", Frame(k, Tup(rows)))
       \/ \E raw \in KleineBladen : invoer = Invoer("blad", raw)
    /\ Begin("call_sheet")

\* A call verwerk_sheet(xls, sheet, bestand, 2024, 3) on the table invoer.
RoepVerwerkSheet ==
    /\ pc = "call_sheet"
    /\ uitvoer' = VerwerkSheet(invoer.w, Bestand0, SheetName(1), 2024, 3, pandas_downcast)
    /\ pc' = "returned"
    /\ UNCHANGED <<pandas_downcast, listing, fi, opened, sheet_names, si, processed,
                   datum, resultaat_per_bestand, alle_data, res_binair,
                   res_binair_no_0, resultaat, exclusie, err, invoer>>

NextSheet == RoepVerwerkSheet

\* verwerk_sheet called on its own.
SpecSheet == InitSheet /\ [][NextSheet]_vars

\* The tables filter_exclusie is called with: the empty table, and the
\* tables of at most MaxFilterRijen rows, labelled 0, 1, ..., with any
\* record in one row and records of VulRecords in the others; the Organisme
\* column holds text or NaN.
InitFilter ==
    /\ pandas_downcast = FALSE
    /\ listing = <<>>
    /\ \/ invoer = Invoer("tabel", <<>>)
       \/ \E m \in 1..MaxFilterRijen : \E p \in 1..m :
             \E rec \in FilterRecords : \E vul \in [1..m -> VulRecords] :
                 invoer = Invoer("tabel",
                                 Tup([k \in 1..m |->
                                         Row(k - 1, IF k = p THEN rec ELSE vul[k])]))
    /\ Begin("call_filter")

\* A call filter_exclusie(df) on the table invoer.
RoepFilterExclusie ==
    /\ pc = "call_filter"
    /\ uitvoer' = FilterExclusie(invoer.w)
    /\ pc' = "returned"
    /\ UNCHANGED <<pandas_downcast, listing, fi, opened, sheet_names, si, processed,
                   datum, resultaat_per_bestand, alle_data, res_binair,
                   res_binair_no_0, resultaat, exclusie, err, invoer>>

NextFilter == RoepFilterExclusie

\* filter_exclusie called on its own.
SpecFilter == InitFilter /\ [][NextFilter]_vars

\* ------------------------------------------------------------ the claims

\* main has ended: an exception left it, or it ran to its last statement.
Terminated == pc \in {"failed", "done"}

\* The set of the elements of a sequence.
Range(s) == {s[k] : k \in 1..Len(s)}

Last(s) == s[Len(s)]

\* The name ends, whatever the case of its letters, in .xlsx or .xlsm.
HasExcelExt(name) ==
    /\ Len(name) >= 5
    /\ Lower(SubSeq(name, Len(name) - 4, Len(name)))
          \in {<<".","x","l","s","x">>, <<".","x","l","s","m">>}

\* The numeric value zero.
IsZero(c) == c.t = "num" /\ c.n = 0

\* C1: when the directory holds at least one workbook and every worksheet
\* has a parsable date and data, main ends without an error and its two
\* tables are the exclusion filter's split of the concatenation without the
\* zero values.  (main gets past the loop with tables in alle_data exactly
\* in that case.)
C1_RunCompletes ==
    (Terminated /\ fi > Len(listing) /\ alle_data # <<>>) =>
        LET f == FilterExclusie(ZeroFilter(Concat(alle_data)))
        IN /\ pc = "done"
           /\ err = NoErr
           /\ resultaat = Assigned(f.behouden)
           /\ exclusie = Assigned(f.exclusie)

SheetFailure == err.kind \in {"InvalidDateError", "SheetProcessingError"}

\* C5: an exception ends the run where it is raised.  The worksheet (or, for
\* a workbook that does not open, the workbook) it names is the last one the
\* run touched, so no later sheet or workbook is processed, and neither the
\* retained nor the excluded table exists; a run that has the tables has no
\* error.
C5_FailFast ==
    /\ err.kind # "none" =>
          /\ pc = "failed"
          /\ ~resultaat.set
          /\ ~exclusie.set
    /\ SheetFailure =>
          /\ Last(processed) = <<err.bestand, err.sheet>>
          /\ Last(opened) = err.bestand
    /\ err.kind = "WorkbookOpenError" =>
          /\ Last(opened) = err.bestand
          /\ \A k \in 1..Len(processed) : processed[k][1] # err.bestand
    /\ (resultaat.set \/ exclusie.set) => (pc = "done" /\ err = NoErr)

\* C5 happens: a worksheet fails while its workbook has a later worksheet
\* and the directory a later workbook.
C5_Witness ==
    /\ pc = "failed"
    /\ SheetFailure
    /\ si < Len(sheet_names)
    /\ fi < Len(listing)
    /\ IsExcelBestand(listing[fi + 1])

\* C6: a blank date cell fails with MissingDateError naming the workbook and
\* the worksheet, and InvalidDateError is raised only for a text that is
\* there and cannot be parsed.
C6_MissingDate ==
    (pc = "failed" /\ invoer.soort = "c2") =>
        /\ invoer.w.t = "nan" =>
              err = Err("MissingDateError", listing[fi], sheet_names[si], "none")
        /\ err.kind = "InvalidDateError" =>
              (invoer.w.t = "str" /\ ~ParseDmy(invoer.w.s).ok)

\* The text holds the term as it is written, whatever the case of the
\* letters.
HasLiteral(s, term) ==
    \E i \in 1..(Len(s) - Len(term) + 1) :
        Lower(SubSeq(s, i, i + Len(term) - 1)) = Lower(term)

\* C8: a row is excluded exactly when its organism is there and holds a
\* forbidden word or a forbidden taxon as a literal text (any case), or a
\* comma; nothing but the organism decides, and a row without an organism is
\* retained.
C8_ExcludedIff ==
    pc = "returned" =>
        \A i \in 1..Len(invoer.w) :
            LET o == invoer.w[i].rec.Organisme
                hit == /\ ~IsNa(o)
                       /\ \/ \E k \in 1..Len(verboden_woorden) :
                                 HasLiteral(o.s, verboden_woorden[k])
                          \/ \E k \in 1..Len(verboden_taxonomie) :
                                 HasLiteral(o.s, verboden_taxonomie[k])
                          \/ \E k \in 1..Len(o.s) : o.s[k] = ","
            IN /\ (invoer.w[i] \in Range(uitvoer.exclusie)) <=> hit
               /\ (invoer.w[i] \in Range(uitvoer.behouden)) <=> ~hit

\* C9: the table without the zero values holds, in the order of the
\* concatenation, every row of it whose Waarde is not the number zero and no
\* row whose Waarde is; it is made before the exclusion filter is called, and
\* no row with Waarde zero is in a retained or excluded table.
C9_ZeroDrop ==
    /\ pc \in {"filter", "done"} => (res_binair.set /\ res_binair_no_0.set)
    /\ pc = "filter" => (~resultaat.set /\ ~exclusie.set)
    /\ res_binair_no_0.set =>
          LET a == res_binair.df
              z == res_binair_no_0.df
          IN /\ Len(a) = Len(Flatten(alle_data))
             /\ \A i \in 1..Len(a) : a[i].rec = Flatten(alle_data)[i]
             /\ \A k \in 1..Len(z) : z[k] \in Range(a) /\ ~IsZero(z[k].rec.Waarde)
             /\ \A i \in 1..Len(a) : ~IsZero(a[i].rec.Waarde) => a[i] \in Range(z)
             /\ \A k \in 1..(Len(z) - 1) : z[k].idx < z[k + 1].idx
    /\ \A t \in {resultaat, exclusie} :
          t.set => \A k \in 1..Len(t.df) : ~IsZero(t.df[k].rec.Waarde)

\* C9 happens: the concatenation has rows with Waarde zero, a row with no
\* Waarde and rows with a number, and the zero values are gone.
C9_Witness ==
    /\ pc = "filter"
    /\ \E i \in 1..Len(res_binair.df) : IsZero(res_binair.df[i].rec.Waarde)
    /\ \E i \in 1..Len(res_binair.df) : IsNa(res_binair.df[i].rec.Waarde)
    /\ res_binair_no_0.df # <<>>
    /\ Len(res_binair_no_0.df) < Len(res_binair.df)

\* C10: only entries whose name ends in .xlsx or .xlsm, in any case, are
\* opened, and every such entry the loop has passed was opened; a directory
\* without such an entry ends in NoDataFoundError with no file opened.
C10_Selection ==
    /\ \A k \in 1..Len(opened) : HasExcelExt(opened[k])
    /\ \A i \in 1..Len(listing) :
          (i < fi /\ HasExcelExt(listing[i])) => listing[i] \in Range(opened)
    /\ (\A i \in 1..Len(listing) : ~HasExcelExt(listing[i])) =>
          /\ opened = <<>>
          /\ Terminated => err = Err("NoDataFoundError", <<>>, <<>>, "none")

\* C10 happens: a directory with entries, none of them a workbook, ends in
\* NoDataFoundError.
C10_Witness ==
    /\ pc = "failed"
    /\ err.kind = "NoDataFoundError"
    /\ Len(listing) = 2

\* The n-th smallest number of a set of numbers.
Nth(S, n) == CHOOSE x \in S : Cardinality({y \in S : y < x}) = n - 1

\* The data rows of a table as read: the rows that are not entirely empty.
DataRows(raw) ==
    {i \in 1..NRows(raw) : \E j \in 1..NCols(raw) : ~IsNa(raw.rows[i][j])}

\* Its columns that are not entirely empty.
DataCols(raw) ==
    {j \in 1..NCols(raw) : \E i \in 1..NRows(raw) : ~IsNa(raw.rows[i][j])}

\* Its department columns: the data columns after the first two.
DeptCols(raw) ==
    {j \in DataCols(raw) : Cardinality({k \in DataCols(raw) : k < j}) >= 2}

\* The first department column with the trimmed header of column j.
FirstOf(raw, j) ==
    CHOOSE k \in DeptCols(raw) :
        /\ Strip(raw.columns[k]) = Strip(raw.columns[j])
        /\ \A l \in DeptCols(raw) :
              Strip(raw.columns[l]) = Strip(raw.columns[j]) => k <= l

\* The department columns without the later ones of a header met before.
DistinctDeptCols(raw) == {j \in DeptCols(raw) : FirstOf(raw, j) = j}

\* A cell as the table holds it once its non-breaking spaces are blanks.
Blanked(c) == IF c.t = "str" THEN Str(ReplaceNbsp(c.s)) ELSE c

\* A label that is absent: no cell, or a text of white space only.
BlankLabel(c) == IsNa(c) \/ (c.t = "str" /\ \A k \in 1..Len(c.s) : c.s[k] \in WhiteSpace)

\* The label a text cell or an empty cell stands for: its text without the
\* white space around it and with blanks for non-breaking spaces, or none.
LabelOf(c) == IF BlankLabel(c) THEN NaN ELSE Str(Strip(ReplaceNbsp(c.s)))

\* The text of the cell holds the term, whatever the case of the letters.
CellHas(c, term) == c.t = "str" /\ HasLiteral(c.s, term)

\* C3: in every record verwerk_sheet returns, each of ESBL, VRE, MRSA and
\* CARBA is 1 exactly when the resistance label holds that term in any case
\* and anywhere, and BRMO is 1 exactly when it holds one of the five terms;
\* so one of the four implies BRMO; a record whose label cell was empty or
\* white space only has no label and all five are 0.
C3_Flags ==
    (pc = "returned" /\ uitvoer.err = NoErr) =>
        LET raw == invoer.w
            R == Cardinality(DataRows(raw))
        IN \A k \in 1..Len(uitvoer.long_df) :
              LET rec == uitvoer.long_df[k]
                  lab == rec.Resistentie
                  cell == raw.rows[Nth(DataRows(raw), ((k - 1) % R) + 1)]
                                  [Nth(DataCols(raw), 2)]
              IN /\ rec.ESBL = 1 <=> CellHas(lab, t_ESBL)
                 /\ rec.VRE = 1 <=> CellHas(lab, t_VRE)
                 /\ rec.MRSA = 1 <=> CellHas(lab, t_MRSA)
                 /\ rec.CARBA = 1 <=> CellHas(lab, t_CARBA)
                 /\ rec.BRMO = 1 <=>
                       \E term \in {t_BRMO, t_ESBL, t_VRE, t_MRSA, t_CARBA} :
                           CellHas(lab, term)
                 /\ {rec.BRMO, rec.ESBL, rec.VRE, rec.MRSA, rec.CARBA} \subseteq {0, 1}
                 /\ (rec.ESBL = 1 \/ rec.VRE = 1 \/ rec.MRSA = 1 \/ rec.CARBA = 1)
                       => rec.BRMO = 1
                 /\ BlankLabel(cell) =>
                       /\ IsNa(lab)
                       /\ rec.BRMO = 0 /\ rec.ESBL = 0 /\ rec.VRE = 0
                       /\ rec.MRSA = 0 /\ rec.CARBA = 0

\* C3 happens: one table gives a record whose label was white space, with
\* no flag, and a record with a flag and BRMO.
C3_Witness ==
    /\ pc = "returned"
    /\ uitvoer.err = NoErr
    /\ \E i \in DataRows(invoer.w) :
          LET c == invoer.w.rows[i][Nth(DataCols(invoer.w), 2)]
          IN c.t = "str" /\ BlankLabel(c)
    /\ \E k \in 1..Len(uitvoer.long_df) :
          IsNa(uitvoer.long_df[k].Resistentie) /\ uitvoer.long_df[k].BRMO = 0
    /\ \E k \in 1..Len(uitvoer.long_df) :
          uitvoer.long_df[k].ESBL = 1 /\ uitvoer.long_df[k].BRMO = 1

\* C4: a table with R data rows and, after its organism and resistance
\* columns, D department columns of distinct trimmed headers gives R x D
\* records: for each department column in turn and each row in turn, the
\* header, the cell, and the row's organism and resistance label.
C4_Reshape ==
    LET raw == invoer.w
        R == Cardinality(DataRows(raw))
        D == Cardinality(DistinctDeptCols(raw))
    IN (pc = "returned" /\ R >= 1 /\ D >= 1) =>
          /\ uitvoer.err = NoErr
          /\ Len(uitvoer.long_df) = R * D
          /\ \A k \in 1..(R * D) :
                LET rec == uitvoer.long_df[k]
                    i == Nth(DataRows(raw), ((k - 1) % R) + 1)
                    j == Nth(DistinctDeptCols(raw), ((k - 1) \div R) + 1)
                    org == raw.rows[i][Nth(DataCols(raw), 1)]
                    res == raw.rows[i][Nth(DataCols(raw), 2)]
                IN /\ rec.Afdeling = Strip(raw.columns[j])
                   /\ rec.Waarde = Blanked(raw.rows[i][j])
                   /\ org.t # "num" => rec.Organisme = LabelOf(org)
                   /\ res.t # "num" => rec.Resistentie = LabelOf(res)

\* C7: a table with no data row or no department column never gives a table
\* of records: verwerk_sheet fails with EmptySheetError (inside the
\* exception that wraps every failure of the reshape) naming the workbook
\* and the worksheet.
C7_EmptySheet ==
    LET raw == invoer.w
    IN (pc = "returned" /\ (DataRows(raw) = {} \/ DistinctDeptCols(raw) = {})) =>
          uitvoer = [err |-> Err("SheetProcessingError", Bestand0, SheetName(1),
                                 "EmptySheetError"),
                     long_df |-> <<>>]

====
